---- MODULE Spec2Model ----
(***************************************************************************)
(* mapcomp: comprehension macros vecc!, hashsetc!, hashmapc!, btreesetc!,  *)
(* btreemapc! and iterc! (src/src/lib.rs).                                 *)
(*                                                                         *)
(* A macro invocation is a clause list: a sequence of `for` and `if`       *)
(* tokens (the `;` separators are implicit).  Each macro is a set of       *)
(* macro-by-example rules, tried in the order they are written, that       *)
(* unrolls the clause list into a nest of loops and guards ending in one   *)
(* push / insert / yield.  The nest is kept as the sequence of its nodes,  *)
(* outermost first: a node's body is the node that follows it.  The        *)
(* variable code holds the nest of the invocation prog; the actions        *)
(* execute it one step at a time.                                          *)
(***************************************************************************)
EXTENDS Integers, Sequences, FiniteSets, TLC

VARIABLES prog, code, st, pc, its, idx, env, ret, result, out, ncalls, ninsert, nevals

vars == <<prog, code, st, pc, its, idx, env, ret, result, out, ncalls, ninsert, nevals>>

(***************************************************************************)
(* Bounds of the checked inputs.                                           *)
(***************************************************************************)
\* greatest number of `for` clauses in a comprehension
MaxFor == 2
\* greatest length of a literal source
MaxLen == 2
\* items of an unbounded source `0..` that the model tells apart
MaxFrom == 3

\* the items of literal sources: an even and an odd one
Vals == {0, 1}

(***************************************************************************)
(* Expressions of the caller: iterables, conditions, element expressions.  *)
(* They are evaluated in the environment env, the sequence of the items    *)
(* bound by the enclosing `for` patterns, outermost first.                 *)
(***************************************************************************)
Last(s) == s[Len(s)]

RECURSIVE Sum(_)
Sum(s) == IF s = <<>> THEN 0 ELSE s[1] + Sum(Tail(s))

\* 0..n as a Rust half-open range: the items 0, 1, ..., n-1
Range(n) == [i \in 1..n |-> i - 1]

\* $cond:  "true" is the literal true,
\*         "odd"  is x % 2 == 1 on the innermost variable,
\*         "le"   is x <= x1 on the innermost and the outermost variable
EvalCond(c, e) ==
    IF c = "true" THEN TRUE
    ELSE IF c = "odd" THEN Last(e) % 2 = 1
    ELSE Last(e) <= e[1]

\* $exp, $key, $val
EvalExp(x, e) ==
    IF x = "last" THEN Last(e)
    ELSE IF x = "first" THEN e[1]
    ELSE Sum(e)

\* $iter evaluated on entering the loop: the iterator over a literal
\* sequence, over the range 0..x of the innermost variable, or over the
\* unbounded range 0..
MakeIter(i, e) ==
    IF i.k = "lit" THEN [k |-> "seq", s |-> i.s, n |-> 0]
    ELSE IF i.k = "range" THEN [k |-> "seq", s |-> Range(Last(e)), n |-> 0]
    ELSE [k |-> "from", s |-> <<>>, n |-> 0]

\* Iterator::next of a source: is there an item, which, and the rest
HasNext(it) == IF it.k = "seq" THEN it.s # <<>> ELSE TRUE
NextItem(it) == IF it.k = "seq" THEN Head(it.s) ELSE it.n
\* of the unbounded range the items 0..MaxFrom-1 are told apart; n = MaxFrom
\* stands for every later item
Advance(it) ==
    IF it.k = "seq" THEN [it EXCEPT !.s = Tail(it.s)]
    ELSE [it EXCEPT !.n = IF it.n < MaxFrom THEN it.n + 1 ELSE it.n]
Beyond(it) == it.k = "from" /\ it.n >= MaxFrom

(***************************************************************************)
(* The macro rules.  Each operator is the `@__` rule set of one macro:     *)
(* the rules are tried top to bottom, the first that matches is expanded.  *)
(***************************************************************************)
ForNode(tok) == [op |-> "for", iter |-> tok.iter]
IfNode(tok) == [op |-> "if", cond |-> tok.cond]
NoRule == <<[op |-> "error"]>>

\* the tokens after the first n clauses tokens: $($tail:tt)+
Rest(toks, n) == SubSeq(toks, n + 1, Len(toks))

MatchForIf(toks) == Len(toks) = 2 /\ toks[1].t = "for" /\ toks[2].t = "if"
MatchFor(toks) == Len(toks) = 1 /\ toks[1].t = "for"
MatchForIfTail(toks) == Len(toks) > 2 /\ toks[1].t = "for" /\ toks[2].t = "if"
MatchForTail(toks) == Len(toks) > 1 /\ toks[1].t = "for"

\* vecc! whose rule `for; if` pushes without testing the condition
RECURSIVE vecc_LastGuardLost(_, _)
vecc_LastGuardLost(exp, toks) ==
    IF MatchForIf(toks)
    THEN <<ForNode(toks[1]), [op |-> "push", exp |-> exp]>>
    ELSE IF MatchFor(toks)
    THEN <<ForNode(toks[1]), [op |-> "push", exp |-> exp]>>
    ELSE IF MatchForIfTail(toks)
    THEN <<ForNode(toks[1]), IfNode(toks[2])>> \o vecc_LastGuardLost(exp, Rest(toks, 2))
    ELSE IF MatchForTail(toks)
    THEN <<ForNode(toks[1])>> \o vecc_LastGuardLost(exp, Rest(toks, 1))
    ELSE NoRule

\* vecc! whose rule `for; if; tail` expands the tail without the condition
RECURSIVE vecc_GuardLost(_, _)
vecc_GuardLost(exp, toks) ==
    IF MatchForIf(toks)
    THEN <<ForNode(toks[1]), IfNode(toks[2]), [op |-> "push", exp |-> exp]>>
    ELSE IF MatchFor(toks)
    THEN <<ForNode(toks[1]), [op |-> "push", exp |-> exp]>>
    ELSE IF MatchForIfTail(toks)
    THEN <<ForNode(toks[1])>> \o vecc_GuardLost(exp, Rest(toks, 2))
    ELSE IF MatchForTail(toks)
    THEN <<ForNode(toks[1])>> \o vecc_GuardLost(exp, Rest(toks, 1))
    ELSE NoRule

RECURSIVE vecc(_, _)
vecc(exp, toks) ==
    IF MatchForIf(toks)
    THEN <<ForNode(toks[1]), IfNode(toks[2]), [op |-> "push", exp |-> exp]>>
    ELSE IF MatchFor(toks)
    THEN <<ForNode(toks[1]), [op |-> "push", exp |-> exp]>>
    ELSE IF MatchForIfTail(toks)
    THEN <<ForNode(toks[1]), IfNode(toks[2])>> \o vecc(exp, Rest(toks, 2))
    ELSE IF MatchForTail(toks)
    THEN <<ForNode(toks[1])>> \o vecc(exp, Rest(toks, 1))
    ELSE NoRule

\* iterc! whose rule `for; if` yields without testing the condition
RECURSIVE iterc_LastGuardLost(_, _)
iterc_LastGuardLost(exp, toks) ==
    IF MatchForIf(toks)
    THEN <<ForNode(toks[1]), [op |-> "yield", exp |-> exp]>>
    ELSE IF MatchFor(toks)
    THEN <<ForNode(toks[1]), [op |-> "yield", exp |-> exp]>>
    ELSE IF MatchForIfTail(toks)
    THEN <<ForNode(toks[1]), IfNode(toks[2])>> \o iterc_LastGuardLost(exp, Rest(toks, 2))
    ELSE IF MatchForTail(toks)
    THEN <<ForNode(toks[1])>> \o iterc_LastGuardLost(exp, Rest(toks, 1))
    ELSE NoRule

RECURSIVE iterc(_, _)
iterc(exp, toks) ==
    IF MatchForIf(toks)
    THEN <<ForNode(toks[1]), IfNode(toks[2]), [op |-> "yield", exp |-> exp]>>
    ELSE IF MatchFor(toks)
    THEN <<ForNode(toks[1]), [op |-> "yield", exp |-> exp]>>
    ELSE IF MatchForIfTail(toks)
    THEN <<ForNode(toks[1]), IfNode(toks[2])>> \o iterc(exp, Rest(toks, 2))
    ELSE IF MatchForTail(toks)
    THEN <<ForNode(toks[1])>> \o iterc(exp, Rest(toks, 1))
    ELSE NoRule

\* hashsetc! whose rule `for; if` inserts without testing the condition
RECURSIVE hashsetc_LastGuardLost(_, _)
hashsetc_LastGuardLost(exp, toks) ==
    IF MatchForIf(toks)
    THEN <<ForNode(toks[1]), [op |-> "insert", exp |-> exp]>>
    ELSE IF MatchFor(toks)
    THEN <<ForNode(toks[1]), [op |-> "insert", exp |-> exp]>>
    ELSE IF MatchForIfTail(toks)
    THEN <<ForNode(toks[1]), IfNode(toks[2])>> \o hashsetc_LastGuardLost(exp, Rest(toks, 2))
    ELSE IF MatchForTail(toks)
    THEN <<ForNode(toks[1])>> \o hashsetc_LastGuardLost(exp, Rest(toks, 1))
    ELSE NoRule

RECURSIVE hashsetc(_, _)
hashsetc(exp, toks) ==
    IF MatchForIf(toks)
    THEN <<ForNode(toks[1]), IfNode(toks[2]), [op |-> "insert", exp |-> exp]>>
    ELSE IF MatchFor(toks)
    THEN <<ForNode(toks[1]), [op |-> "insert", exp |-> exp]>>
    ELSE IF MatchForIfTail(toks)
    THEN <<ForNode(toks[1]), IfNode(toks[2])>> \o hashsetc(exp, Rest(toks, 2))
    ELSE IF MatchForTail(toks)
    THEN <<ForNode(toks[1])>> \o hashsetc(exp, Rest(toks, 1))
    ELSE NoRule

\* btreesetc! whose rule `for; if; tail` expands the tail without the condition
RECURSIVE btreesetc_GuardLost(_, _)
btreesetc_GuardLost(exp, toks) ==
    IF MatchForIf(toks)
    THEN <<ForNode(toks[1]), IfNode(toks[2]), [op |-> "insert", exp |-> exp]>>
    ELSE IF MatchFor(toks)
    THEN <<ForNode(toks[1]), [op |-> "insert", exp |-> exp]>>
    ELSE IF MatchForIfTail(toks)
    THEN <<ForNode(toks[1])>> \o btreesetc_GuardLost(exp, Rest(toks, 2))
    ELSE IF MatchForTail(toks)
    THEN <<ForNode(toks[1])>> \o btreesetc_GuardLost(exp, Rest(toks, 1))
    ELSE NoRule

RECURSIVE btreesetc(_, _)
btreesetc(exp, toks) ==
    IF MatchForIf(toks)
    THEN <<ForNode(toks[1]), IfNode(toks[2]), [op |-> "insert", exp |-> exp]>>
    ELSE IF MatchFor(toks)
    THEN <<ForNode(toks[1]), [op |-> "insert", exp |-> exp]>>
    ELSE IF MatchForIfTail(toks)
    THEN <<ForNode(toks[1]), IfNode(toks[2])>> \o btreesetc(exp, Rest(toks, 2))
    ELSE IF MatchForTail(toks)
    THEN <<ForNode(toks[1])>> \o btreesetc(exp, Rest(toks, 1))
    ELSE NoRule

\* hashmapc! that inserts the value as key, the key as value
RECURSIVE hashmapc_Swapped(_, _, _)
hashmapc_Swapped(key, val, toks) ==
    IF MatchForIf(toks)
    THEN <<ForNode(toks[1]), IfNode(toks[2]),
           [op |-> "insertkv", key |-> val, val |-> key]>>
    ELSE IF MatchFor(toks)
    THEN <<ForNode(toks[1]), [op |-> "insertkv", key |-> val, val |-> key]>>
    ELSE IF MatchForIfTail(toks)
    THEN <<ForNode(toks[1]), IfNode(toks[2])>> \o hashmapc_Swapped(key, val, Rest(toks, 2))
    ELSE IF MatchForTail(toks)
    THEN <<ForNode(toks[1])>> \o hashmapc_Swapped(key, val, Rest(toks, 1))
    ELSE NoRule

RECURSIVE hashmapc(_, _, _)
hashmapc(key, val, toks) ==
    IF MatchForIf(toks)
    THEN <<ForNode(toks[1]), IfNode(toks[2]),
           [op |-> "insertkv", key |-> key, val |-> val]>>
    ELSE IF MatchFor(toks)
    THEN <<ForNode(toks[1]), [op |-> "insertkv", key |-> key, val |-> val]>>
    ELSE IF MatchForIfTail(toks)
    THEN <<ForNode(toks[1]), IfNode(toks[2])>> \o hashmapc(key, val, Rest(toks, 2))
    ELSE IF MatchForTail(toks)
    THEN <<ForNode(toks[1])>> \o hashmapc(key, val, Rest(toks, 1))
    ELSE NoRule

\* btreemapc! whose rule `for; if; tail` expands the tail without the condition
RECURSIVE btreemapc_GuardLost(_, _, _)
btreemapc_GuardLost(key, val, toks) ==
    IF MatchForIf(toks)
    THEN <<ForNode(toks[1]), IfNode(toks[2]), [op |-> "insertkv", key |-> key, val |-> val]>>
    ELSE IF MatchFor(toks)
    THEN <<ForNode(toks[1]), [op |-> "insertkv", key |-> key, val |-> val]>>
    ELSE IF MatchForIfTail(toks)
    THEN <<ForNode(toks[1])>> \o btreemapc_GuardLost(key, val, Rest(toks, 2))
    ELSE IF MatchForTail(toks)
    THEN <<ForNode(toks[1])>> \o btreemapc_GuardLost(key, val, Rest(toks, 1))
    ELSE NoRule

RECURSIVE btreemapc(_, _, _)
btreemapc(key, val, toks) ==
    IF MatchForIf(toks)
    THEN <<ForNode(toks[1]), IfNode(toks[2]),
           [op |-> "insertkv", key |-> key, val |-> val]>>
    ELSE IF MatchFor(toks)
    THEN <<ForNode(toks[1]), [op |-> "insertkv", key |-> key, val |-> val]>>
    ELSE IF MatchForIfTail(toks)
    THEN <<ForNode(toks[1]), IfNode(toks[2])>> \o btreemapc(key, val, Rest(toks, 2))
    ELSE IF MatchForTail(toks)
    THEN <<ForNode(toks[1])>> \o btreemapc(key, val, Rest(toks, 1))
    ELSE NoRule

\* the nest a macro invocation expands to
Expand(p) ==
    IF p.macro = "vecc" THEN vecc(p.exp, p.toks)
    ELSE IF p.macro = "iterc" THEN iterc(p.exp, p.toks)
    ELSE IF p.macro = "hashsetc" THEN hashsetc(p.exp, p.toks)
    ELSE IF p.macro = "btreesetc" THEN btreesetc(p.exp, p.toks)
    ELSE IF p.macro = "hashmapc" THEN hashmapc(p.key, p.val, p.toks)
    ELSE btreemapc(p.key, p.val, p.toks)

(***************************************************************************)
(* Control flow of the nest.                                               *)
(***************************************************************************)
\* the number of loops a node is inside of, a `for` node counting itself
Level(nest, i) == Cardinality({j \in 1..i : nest[j].op = "for"})

\* the innermost loop around node i (0 if there is none): where control
\* goes when the body of that loop ends
EnclosingFor(nest, i) ==
    IF \E j \in 1..(i - 1) : nest[j].op = "for"
    THEN CHOOSE j \in 1..(i - 1) :
            /\ nest[j].op = "for"
            /\ \A m \in (j + 1)..(i - 1) : nest[m].op # "for"
    ELSE 0

\* past the last node: the outermost loop has ended
End(nest) == Len(nest) + 1

\* where control goes when the loop at node i ends
AfterLoop(nest, i) ==
    IF EnclosingFor(nest, i) = 0 THEN End(nest) ELSE EnclosingFor(nest, i)

\* the variables in scope at a `for` node that is about to pull an item
Scope(nest, i, e) == SubSeq(e, 1, Level(nest, i) - 1)

(***************************************************************************)
(* The checked invocations.  A comprehension has 1..MaxFor `for` clauses,  *)
(* each with or without an `if`.  The outermost source is a literal        *)
(* sequence; an inner source is that literal again or the range 0..x of    *)
(* the variable bound just outside it.  iterc! is also run over the        *)
(* unbounded range 0.. at any depth.                                       *)
(***************************************************************************)
Lits == UNION {[1..n -> Vals] : n \in 0..MaxLen}
Conds == {"true", "odd", "le"}
Exps == {"last", "sum"}
KeyVals == {<<"last", "sum">>, <<"first", "last">>}
ElemMacros == {"vecc", "hashsetc", "btreesetc"}
MapMacros == {"hashmapc", "btreemapc"}

SourceKinds == {"lit", "range", "from"}
CondOpts == {"none"} \cup Conds

\* one clause: `for x in $iter` with or without `if $cond`
Clause(s, k, c) ==
    LET for == [t |-> "for", iter |-> [k |-> k, s |-> IF k = "lit" THEN s ELSE <<>>]]
    IN  IF c = "none" THEN <<for>> ELSE <<for, [t |-> "if", cond |-> c]>>

\* the clause list with sources of kinds ks and conditions cs
RECURSIVE ClauseList(_, _, _)
ClauseList(s, ks, cs) ==
    IF ks = <<>> THEN <<>>
    ELSE Clause(s, ks[1], cs[1]) \o ClauseList(s, Tail(ks), Tail(cs))

IsUnbounded(toks) ==
    \E i \in 1..Len(toks) : toks[i].t = "for" /\ toks[i].iter.k = "from"

\* the outermost source is no range of an outer variable; only iterc! is
\* given an unbounded source, one at most, and `x <= x1` is the condition
\* that cuts one
WellFormed(m, ks, cs) ==
    /\ ks[1] # "range"
    /\ m # "iterc" => \A i \in 1..Len(ks) : ks[i] # "from"
    /\ \A i, j \in 1..Len(ks) : (ks[i] = "from" /\ ks[j] = "from") => i = j
    /\ \A i \in 1..Len(ks) : cs[i] = "le" => ks[i] = "from"

Program(m, x, kv, toks) ==
    IF m \in MapMacros
    THEN [macro |-> m, exp |-> "none", key |-> kv[1], val |-> kv[2], toks |-> toks]
    ELSE [macro |-> m, exp |-> x, key |-> "none", val |-> "none", toks |-> toks]

NoCall == [tag |-> "NoCall", v |-> 0]
None == [tag |-> "None", v |-> 0]
Some(y) == [tag |-> "Some", v |-> y]
Panic == [tag |-> "Panic", v |-> 0]

Init ==
    /\ \E m \in ElemMacros \cup MapMacros \cup {"iterc"}, n \in 1..MaxFor, s \in Lits :
         \E ks \in [1..n -> SourceKinds], cs \in [1..n -> CondOpts] :
           \E x \in Exps, kv \in KeyVals :
              /\ WellFormed(m, ks, cs)
              /\ prog = Program(m, x, kv, ClauseList(s, ks, cs))
    /\ code = Expand(prog)
    /\ st = "new"
    /\ pc = 0
    /\ its = <<>>
    /\ idx = <<>>
    /\ env = <<>>
    /\ ret = <<>>
    /\ result = NoCall
    /\ out = <<>>
    /\ ncalls = 0
    /\ ninsert = 0
    /\ nevals = 0

(***************************************************************************)
(* Entry rules of the container macros: create the accumulator, run the    *)
(* nest, return the accumulator.                                           *)
(***************************************************************************)
NewAcc(m) == IF m \in {"hashsetc", "btreesetc"} THEN {} ELSE <<>>

Enter ==
    /\ st = "new"
    /\ prog.macro # "iterc"
    /\ st' = "running"
    /\ ret' = NewAcc(prog.macro)
    /\ pc' = 1
    /\ UNCHANGED <<prog, code, its, idx, env, result, out, ncalls, ninsert, nevals>>

Return ==
    /\ st = "running"
    /\ prog.macro # "iterc"
    /\ pc = End(code)
    /\ st' = "done"
    /\ UNCHANGED <<prog, code, pc, its, idx, env, ret, result, out, ncalls, ninsert, nevals>>

(***************************************************************************)
(* The nest: `for $item in $iter { ... }` and `if $cond { ... }`.          *)
(***************************************************************************)
AtNode(o) == st = "running" /\ pc \in 1..Len(code) /\ code[pc].op = o

\* `for`: $iter is evaluated once, on entering the loop
ForEnter ==
    /\ AtNode("for")
    /\ Len(its) < Level(code, pc)
    /\ its' = Append(its, MakeIter(code[pc].iter, env))
    /\ idx' = Append(idx, 0)
    /\ UNCHANGED <<prog, code, st, pc, env, ret, result, out, ncalls, ninsert, nevals>>

\* the loop at node i is an inner one whose body is `if x <= x1 { ... }`,
\* x1 an item of a literal: it rejects every item from MaxFrom on alike
CutLoop(nest, i) ==
    /\ MaxFrom > 1
    /\ Level(nest, i) > 1
    /\ i < Len(nest)
    /\ nest[i + 1].op = "if" /\ nest[i + 1].cond = "le"

\* `for`: the iterator gives an item, which $item binds for the body.  An
\* unbounded source is followed item by item up to MaxFrom, and further
\* only where all later items fare alike.
ForNext ==
    /\ AtNode("for")
    /\ Len(its) = Level(code, pc)
    /\ HasNext(Last(its))
    /\ Beyond(Last(its)) => CutLoop(code, pc)
    /\ env' = Append(Scope(code, pc, env), NextItem(Last(its)))
    /\ its' = [its EXCEPT ![Len(its)] = Advance(@)]
    /\ idx' = [idx EXCEPT ![Len(idx)] = IF Beyond(Last(its)) THEN @ ELSE @ + 1]
    /\ pc' = pc + 1
    /\ UNCHANGED <<prog, code, st, ret, result, out, ncalls, ninsert, nevals>>

\* `for`: the iterator is exhausted, the loop ends
ForDone ==
    /\ AtNode("for")
    /\ Len(its) = Level(code, pc)
    /\ ~HasNext(Last(its))
    /\ its' = SubSeq(its, 1, Len(its) - 1)
    /\ idx' = SubSeq(idx, 1, Len(idx) - 1)
    /\ pc' = AfterLoop(code, pc)
    /\ env' = SubSeq(env, 1, Level(code, pc) - 2)
    /\ UNCHANGED <<prog, code, st, ret, result, out, ncalls, ninsert, nevals>>

\* `if`: the condition holds, the body runs
IfTrue ==
    /\ AtNode("if")
    /\ EvalCond(code[pc].cond, env)
    /\ pc' = pc + 1
    /\ UNCHANGED <<prog, code, st, its, idx, env, ret, result, out, ncalls, ninsert, nevals>>

\* `if`: the condition fails, the body of the enclosing loop is over
IfFalse ==
    /\ AtNode("if")
    /\ ~EvalCond(code[pc].cond, env)
    /\ pc' = EnclosingFor(code, pc)
    /\ env' = Scope(code, pc', env)
    /\ UNCHANGED <<prog, code, st, its, idx, ret, result, out, ncalls, ninsert, nevals>>

(***************************************************************************)
(* The innermost statement of the container macros.                        *)
(***************************************************************************)
\* HashMap::insert / BTreeMap::insert: a present key gets the new value
MapInsert(m, k, v) == [x \in (DOMAIN m) \cup {k} |-> IF x = k THEN v ELSE m[x]]

BodyEnd ==
    /\ pc' = EnclosingFor(code, pc)
    /\ env' = Scope(code, pc', env)

\* a push at the front of the accumulator
Push_Front ==
    /\ AtNode("push")
    /\ ret' = <<EvalExp(code[pc].exp, env)>> \o ret
    /\ ninsert' = ninsert + 1
    /\ nevals' = nevals + 1
    /\ BodyEnd
    /\ UNCHANGED <<prog, code, st, its, idx, result, out, ncalls>>

\* $acc.push($exp)
Push ==
    /\ AtNode("push")
    /\ ret' = Append(ret, EvalExp(code[pc].exp, env))
    /\ ninsert' = ninsert + 1
    /\ nevals' = nevals + 1
    /\ BodyEnd
    /\ UNCHANGED <<prog, code, st, its, idx, result, out, ncalls>>

\* $acc.insert($exp)
Insert ==
    /\ AtNode("insert")
    /\ ret' = ret \cup {EvalExp(code[pc].exp, env)}
    /\ ninsert' = ninsert + 1
    /\ nevals' = nevals + 1
    /\ BodyEnd
    /\ UNCHANGED <<prog, code, st, its, idx, result, out, ncalls>>

\* $acc.insert($key, $val)
InsertKV ==
    /\ AtNode("insertkv")
    /\ ret' = MapInsert(ret, EvalExp(code[pc].key, env), EvalExp(code[pc].val, env))
    /\ ninsert' = ninsert + 1
    /\ nevals' = nevals + 2
    /\ BodyEnd
    /\ UNCHANGED <<prog, code, st, its, idx, result, out, ncalls>>

(***************************************************************************)
(* iterc!: the nest is the body of a generator held by a                   *)
(* GeneratorIterator; next() resumes it.                                   *)
(*   st = "unresumed"  created, never resumed                              *)
(*        "running"    inside a call of next()                             *)
(*        "suspended"  at a yield, between two calls                       *)
(*        "returned"   the body has run to its end                         *)
(*        "panicked"   resumed after it had returned                       *)
(***************************************************************************)
\* an entry rule that starts the body when it builds the iterator
New_Eager ==
    /\ st = "new"
    /\ prog.macro = "iterc"
    /\ st' = "running"
    /\ pc' = 1
    /\ UNCHANGED <<prog, code, its, idx, env, ret, result, out, ncalls, ninsert, nevals>>

\* the entry rule: build the closure and wrap it; nothing of the body runs
New ==
    /\ st = "new"
    /\ prog.macro = "iterc"
    /\ st' = "unresumed"
    /\ UNCHANGED <<prog, code, pc, its, idx, env, ret, result, out, ncalls, ninsert, nevals>>

\* next(): resume the generator, from its start or from the yield it is at
Next_ ==
    /\ st \in {"unresumed", "suspended"}
    /\ st' = "running"
    /\ ncalls' = ncalls + 1
    /\ pc' = IF st = "unresumed" THEN 1 ELSE EnclosingFor(code, pc)
    /\ env' = IF st = "unresumed" THEN env ELSE Scope(code, pc', env)
    /\ UNCHANGED <<prog, code, its, idx, ret, result, out, ninsert, nevals>>

\* yield $exp: GeneratorState::Yielded(y) => Some(y)
Yield ==
    /\ AtNode("yield")
    /\ st' = "suspended"
    /\ result' = Some(EvalExp(code[pc].exp, env))
    /\ out' = Append(out, EvalExp(code[pc].exp, env))
    /\ nevals' = nevals + 1
    /\ UNCHANGED <<prog, code, pc, its, idx, env, ret, ncalls, ninsert>>

\* the body ends: GeneratorState::Complete(()) => None
Complete ==
    /\ st = "running"
    /\ prog.macro = "iterc"
    /\ pc = End(code)
    /\ st' = "returned"
    /\ result' = None
    /\ UNCHANGED <<prog, code, pc, its, idx, env, ret, out, ncalls, ninsert, nevals>>

\* next() after the generator has returned: resume() is called again, and a
\* generator literal panics when resumed after completion
NextAfterReturn ==
    /\ st = "returned"
    /\ st' = "panicked"
    /\ ncalls' = ncalls + 1
    /\ result' = Panic
    /\ UNCHANGED <<prog, code, pc, its, idx, env, ret, out, ninsert, nevals>>

\* the steps the running code takes by itself
Run ==
    \/ ForEnter \/ ForNext \/ ForDone \/ IfTrue \/ IfFalse
    \/ Push \/ Insert \/ InsertKV \/ Return
    \/ Yield \/ Complete

Next ==
    \/ Enter \/ New \/ Next_ \/ NextAfterReturn
    \/ ForEnter \/ ForNext \/ ForDone \/ IfTrue \/ IfFalse
    \/ Push \/ Insert \/ InsertKV \/ Return
    \/ Yield \/ Complete

Spec == Init /\ [][Next]_vars

\* running code takes its next step; the caller of next() may stop calling
FairSpec == Init /\ [][Next]_vars /\ WF_vars(Run)

(***************************************************************************)
(* What a comprehension denotes: the loop nest written by hand.  A         *)
(* selected tuple is the items bound by the `for` clauses, outermost       *)
(* first, on which every condition holds; path is its position in the      *)
(* sources (the i-th item of each).  An unbounded source is followed for   *)
(* its first MaxFrom items.                                                *)
(***************************************************************************)
Items(i, e) ==
    IF i.k = "lit" THEN i.s
    ELSE IF i.k = "range" THEN Range(Last(e))
    ELSE Range(MaxFrom)

RECURSIVE Selected(_, _, _)
RECURSIVE SelectedLoop(_, _, _, _, _)
Selected(toks, e, p) ==
    IF toks = <<>> THEN <<[env |-> e, path |-> p]>>
    ELSE IF toks[1].t = "if"
    THEN IF EvalCond(toks[1].cond, e) THEN Selected(Tail(toks), e, p) ELSE <<>>
    ELSE SelectedLoop(Tail(toks), e, p, Items(toks[1].iter, e), 1)

SelectedLoop(body, e, p, items, i) ==
    IF i > Len(items) THEN <<>>
    ELSE Selected(body, Append(e, items[i]), Append(p, i))
            \o SelectedLoop(body, e, p, items, i + 1)

AllSelected == Selected(prog.toks, <<>>, <<>>)

\* the values of an expression over the selected tuples, in traversal order
ValuesOf(x, sel) == [i \in 1..Len(sel) |-> EvalExp(x, sel[i].env)]

Elems(s) == {s[i] : i \in 1..Len(s)}

IsPrefix(s, u) == Len(s) <= Len(u) /\ \A i \in 1..Len(s) : s[i] = u[i]

Finished == st = "done"

\* the clause list without its conditions, and whether a tuple is rejected
Unfiltered(toks) == SelectSeq(toks, LAMBDA tok : tok.t = "for")
Rejecting == Len(AllSelected) < Len(Selected(Unfiltered(prog.toks), <<>>, <<>>))

\* C1: vecc! over finite sources returns exactly the values of the element
\* expression over the selected tuples, first `for` outermost, each source
\* in its own order: nothing missing, nothing extra, nothing reordered.
C1_VeccIsNestedLoop ==
    (Finished /\ prog.macro = "vecc") => ret = ValuesOf(prog.exp, AllSelected)

\* a nested for/if comprehension that has returned two different elements
\* and has rejected a tuple
C1_Witness ==
    /\ Finished /\ prog.macro = "vecc"
    /\ Len(prog.toks) >= 3
    /\ Len(ret) >= 2 /\ ret[1] # ret[2]
    /\ Rejecting

\* C2: over finite sources the Some(v) results of next() on iterc! are, in
\* order and in number, the Vec that vecc! returns for the same element
\* expression and clauses, and the call after the last element returns None.
C2_ItercYieldsVecc ==
    /\ (Finished /\ prog.macro = "vecc") => ret = ValuesOf(prog.exp, AllSelected)
    /\ (prog.macro = "iterc" /\ ~IsUnbounded(prog.toks)) =>
          /\ IsPrefix(out, ValuesOf(prog.exp, AllSelected))
          /\ st = "suspended" => (result = Some(Last(out)) /\ Len(out) = ncalls)
          /\ st = "returned" =>
                /\ out = ValuesOf(prog.exp, AllSelected)
                /\ result = None
                /\ ncalls = Len(out) + 1

\* an iterator over a nested for/if comprehension that has given two
\* different elements and then None
C2_Witness ==
    /\ prog.macro = "iterc" /\ ~IsUnbounded(prog.toks)
    /\ st = "returned" /\ result = None
    /\ Len(prog.toks) >= 3
    /\ Len(out) >= 2 /\ out[1] # out[2]
    /\ Rejecting

\* the key-to-value mapping of the selected tuples, a later tuple replacing
\* an earlier one of the same key
LastWins(key, val, sel) ==
    LET keys == {EvalExp(key, sel[i].env) : i \in 1..Len(sel)}
        last(k) == CHOOSE i \in 1..Len(sel) :
                      /\ EvalExp(key, sel[i].env) = k
                      /\ \A j \in (i + 1)..Len(sel) : EvalExp(key, sel[j].env) # k
    IN  [k \in keys |-> EvalExp(val, sel[last(k)].env)]

\* C4: hashmapc! and btreemapc! over finite sources return the map whose
\* keys are the keys of the selected tuples, each with the value of the last
\* selected tuple of that key; both return the same mapping.
C4_MapLastWins ==
    (Finished /\ prog.macro \in MapMacros) =>
        /\ DOMAIN ret = {EvalExp(prog.key, AllSelected[i].env) : i \in 1..Len(AllSelected)}
        /\ ret = LastWins(prog.key, prog.val, AllSelected)

\* a map comprehension in which a key was inserted twice with different
\* values
C4_Witness ==
    /\ Finished /\ prog.macro \in MapMacros
    /\ \E i, j \in 1..Len(AllSelected) :
          /\ i < j
          /\ EvalExp(prog.key, AllSelected[i].env) = EvalExp(prog.key, AllSelected[j].env)
          /\ EvalExp(prog.val, AllSelected[i].env) # EvalExp(prog.val, AllSelected[j].env)
          /\ ret[EvalExp(prog.key, AllSelected[j].env)] = EvalExp(prog.val, AllSelected[j].env)

\* C5: hashsetc! and btreesetc! over finite sources return the set of the
\* distinct values of the element expression over the selected tuples, the
\* set of the elements of the Vec of vecc!.
C5_SetOfSelected ==
    /\ (Finished /\ prog.macro \in {"hashsetc", "btreesetc"}) =>
          /\ \A i \in 1..Len(AllSelected) : EvalExp(prog.exp, AllSelected[i].env) \in ret
          /\ \A v \in ret : \E i \in 1..Len(AllSelected) :
                v = EvalExp(prog.exp, AllSelected[i].env)
    /\ (Finished /\ prog.macro = "vecc") =>
          Elems(ret) = Elems(ValuesOf(prog.exp, AllSelected))

\* a nonempty set comprehension in which a value was inserted more than once
\* and a tuple was rejected
C5_Witness ==
    /\ Finished /\ prog.macro \in {"hashsetc", "btreesetc"}
    /\ ret # {}
    /\ ninsert > Cardinality(ret)
    /\ Rejecting

\* the expressions an insertion evaluates: $exp, or $key and $val
EvalsPerInsert == IF prog.macro \in MapMacros THEN 2 ELSE 1

\* C7: a container macro calls push / insert once per selected tuple and
\* evaluates the element expression (the key and the value expressions) once
\* per call, never for a rejected tuple; the Vec of vecc! is as long as the
\* selected tuples are many.
C7_OneInsertPerSelected ==
    prog.macro # "iterc" =>
        /\ nevals = EvalsPerInsert * ninsert
        /\ ninsert <= Len(AllSelected)
        /\ Finished => ninsert = Len(AllSelected)
        /\ (Finished /\ prog.macro = "vecc") => Len(ret) = Len(AllSelected)

\* a map comprehension that has inserted for some tuples and rejected others
C7_Witness ==
    /\ Finished /\ prog.macro = "btreemapc"
    /\ ninsert >= 2
    /\ nevals = 2 * ninsert
    /\ Rejecting

\* the `if` clauses, the loops each is inside of, its condition on the items
\* these loops are at, and the step that pushes, inserts or yields
IfTokens == {q \in 1..Len(prog.toks) : prog.toks[q].t = "if"}
ForsBefore(q) == Cardinality({j \in 1..q : prog.toks[j].t = "for"})
CondHolds(q) == EvalCond(prog.toks[q].cond, SubSeq(env, 1, ForsBefore(q)))
Emits == ninsert' = ninsert + 1 \/ Len(out') = Len(out) + 1

\* C6: an `if` guards everything after it in the clause list: while its
\* condition is false on the current item no later source is iterated (and
\* so no later condition evaluated), and an element is pushed, inserted or
\* yielded only for a tuple on which every condition holds.
C6_IfGuardsTheRest ==
    /\ [](\A q \in IfTokens : Len(its) > ForsBefore(q) => CondHolds(q))
    /\ [][Emits => \A q \in IfTokens : CondHolds(q)]_vars

\* in a nested comprehension the condition of the outer loop has failed on
\* the second item, after the first item had passed it and an element was
\* produced: control is back at the outer loop and no inner loop was entered
C6_Witness ==
    /\ Len(prog.toks) >= 3
    /\ prog.toks[1].iter.k = "lit" /\ prog.toks[2].t = "if"
    /\ Len(prog.toks[1].iter.s) = 2
    /\ EvalCond(prog.toks[2].cond, <<prog.toks[1].iter.s[1]>>)
    /\ ~EvalCond(prog.toks[2].cond, <<prog.toks[1].iter.s[2]>>)
    /\ st = "running" /\ pc = 1
    /\ Len(its) = 1 /\ idx = <<2>>
    /\ ninsert + Len(out) >= 1

\* C8: GeneratorIterator never resumes a generator that has completed: after
\* next() has returned None a further next() returns None without resuming.
C8_NoResumeAfterComplete == st # "panicked"

\* C9: the accumulator of vecc! starts empty and only grows at its end: what
\* it holds at any step stays a prefix of what it holds afterwards.
C9_AccOnlyAppends ==
    [][prog.macro = "vecc" =>
          IF st = "new" THEN ret' = <<>> ELSE IsPrefix(ret, ret')]_vars

\* a vecc! still running that holds two different elements
C9_Witness ==
    /\ prog.macro = "vecc" /\ st = "running"
    /\ Len(ret) >= 2 /\ ret[1] # ret[2]
    /\ pc = Len(code)

\* the clause list without its `if true` clauses
Strip(toks) == SelectSeq(toks, LAMBDA tok : ~(tok.t = "if" /\ tok.cond = "true"))
HasIfTrue == \E q \in IfTokens : prog.toks[q].cond = "true"

\* C10: `if true` after a `for` is the same as no `if`: every macro gives
\* what the clause list without its `if true` clauses denotes, so adding
\* `if true` after a `for` that has no condition changes no result.
C10_IfTrueIsNoIf ==
    LET sel == Selected(Strip(prog.toks), <<>>, <<>>)
    IN  /\ (Finished /\ prog.macro = "vecc") => ret = ValuesOf(prog.exp, sel)
        /\ (Finished /\ prog.macro \in {"hashsetc", "btreesetc"}) =>
              ret = Elems(ValuesOf(prog.exp, sel))
        /\ (Finished /\ prog.macro \in MapMacros) =>
              ret = LastWins(prog.key, prog.val, sel)
        /\ (st = "returned" /\ ~IsUnbounded(prog.toks)) =>
              out = ValuesOf(prog.exp, sel)

\* a comprehension with `if true` after its last `for` and a real condition
\* after its first has produced its elements
C10_Witness ==
    /\ HasIfTrue
    /\ Len(prog.toks) = 4
    /\ prog.toks[2].cond = "odd" /\ prog.toks[4].cond = "true"
    /\ \/ Finished /\ prog.macro = "vecc" /\ Len(ret) >= 2
       \/ st = "returned" /\ Len(out) >= 2

(***************************************************************************)
(* What the nest reaches.  The loop over an unbounded source never ends,   *)
(* so nothing that the hand-written nest would do after that loop is ever  *)
(* done: Reached is the selected tuples up to there, div tells that such a *)
(* loop was entered.                                                       *)
(***************************************************************************)
RECURSIVE Trav(_, _, _)
RECURSIVE TravLoop(_, _, _, _, _, _)
Trav(toks, e, p) ==
    IF toks = <<>> THEN [sel |-> <<[env |-> e, path |-> p]>>, div |-> FALSE]
    ELSE IF toks[1].t = "if"
    THEN IF EvalCond(toks[1].cond, e)
         THEN Trav(Tail(toks), e, p)
         ELSE [sel |-> <<>>, div |-> FALSE]
    ELSE TravLoop(Tail(toks), e, p, Items(toks[1].iter, e), 1, toks[1].iter.k = "from")

TravLoop(body, e, p, items, i, unbounded) ==
    IF i > Len(items) THEN [sel |-> <<>>, div |-> unbounded]
    ELSE LET h == Trav(body, Append(e, items[i]), Append(p, i))
         IN  IF h.div THEN h
             ELSE LET r == TravLoop(body, e, p, items, i + 1, unbounded)
                  IN  [sel |-> h.sel \o r.sel, div |-> r.div]

Reached == Trav(prog.toks, <<>>, <<>>).sel

\* the first MaxFrom items of every unbounded source hold all that is ever
\* selected from it: the source is an inner one and is cut by `x <= x1`,
\* x1 an item of a literal
HorizonExact(toks) ==
    /\ MaxFrom > 1
    /\ \A i \in 1..Len(toks) :
          (toks[i].t = "for" /\ toks[i].iter.k = "from") =>
              /\ i > 1
              /\ i < Len(toks)
              /\ toks[i + 1].t = "if" /\ toks[i + 1].cond = "le"

\* iterc! is lazy: building the iterator evaluates no source and pulls no
\* item, and a call of next() leaves every source just where the element it
\* returns was found
Lazy ==
    prog.macro = "iterc" =>
        /\ st \in {"new", "unresumed"} => (its = <<>> /\ idx = <<>> /\ out = <<>>)
        /\ st = "suspended" =>
              /\ Len(out) = ncalls
              /\ ncalls <= Len(Reached)
              /\ env = Reached[ncalls].env
              /\ idx = Reached[ncalls].path
              /\ result = Some(EvalExp(prog.exp, env))

InCall == prog.macro = "iterc" /\ st = "running"

\* C3 as stated: iterc! is lazy, and the k-th call of next() returns the
\* k-th selected element whenever there is a k-th selected element.
C3_KthSelectedReturned ==
    /\ []Lazy
    /\ (InCall /\ HorizonExact(prog.toks) /\ ncalls <= Len(AllSelected))
          ~> (st = "suspended")

\* C3 amended: iterc! is lazy, and the k-th call of next() returns the k-th
\* selected element whenever the nest reaches a k-th selected element, that
\* is when no loop over an unbounded source that selects nothing more comes
\* before it.
C3_KthReachedReturned ==
    /\ []Lazy
    /\ (InCall /\ ncalls <= Len(Reached)) ~> (st = "suspended")

\* the iterator over an unbounded source has returned its second element,
\* found after an item that was rejected
C3_Witness ==
    /\ prog.macro = "iterc" /\ IsUnbounded(prog.toks)
    /\ st = "suspended" /\ ncalls = 2
    /\ \E i \in 1..Len(idx) : idx[i] >= 3 /\ its[i].k = "from"

====
